---- MODULE Spec2Model ----
(***************************************************************************)
(* A model of the replicated memory cache of main.go: the Cache type (a    *)
(* sync.Map, a peer list and a mutex), its methods Add, Get, Delete,       *)
(* replicateData, replicateDelete and getDataFromCache, and the HTTP       *)
(* handlers main() registers (/add, /get, /delete, /replicate,             *)
(* /getCacheContent, /updates).                                            *)
(*                                                                         *)
(* A node is what answers at one of the addresses main() listens on, with  *)
(* a cache of its own: clients talk to :8080 and the peers of cache.peers  *)
(* are the nodes at :8081 and :8082.  (One process of main() serves the    *)
(* three addresses from one cache; a peer's handlers answer every delivery *)
(* of the code with 400 or 404 and write no cache, so that the deliveries  *)
(* behave the same whether a peer is the same process or another one.)     *)
(* Strings that the code builds or parses (request bodies, the cache       *)
(* listing) are sequences of one-character strings; keys and values are    *)
(* one character long.                                                     *)
(***************************************************************************)
EXTENDS Naturals, Sequences, FiniteSets, Bags, TLC

\* ------------------------------------------------------------------ bounds

\* Requests served in one behaviour in which requests overlap; each has a
\* handler of its own, and they can all run at the same time.
MaxOps == 2
\* Requests served in one behaviour in which they are served one after the
\* other.
MaxSeqOps == 5
\* Requests served in one behaviour of listings that overlap with changes.
MaxWalkOps == 3
\* Requests served in one behaviour with subscribers.
MaxFeedOps == 1
\* Subscribers of /updates in one behaviour.
MaxSubs == 1
\* Requests served, and subscribers of /updates, in one behaviour in which
\* subscribers are connected side by side.
MaxIsoOps == 1
MaxIsoSubs == 2
\* Requests served in one behaviour in which they are served one after the
\* other while the deliveries of the ones before are still on their way.
MaxOrderOps == 2

\* ------------------------------------------------------- the configuration

\* The addresses main() listens on; each names a node.
Nodes == {":8080", ":8081", ":8082"}

\* cache.peers, the same list on every node.
peers == <<":8081", ":8082">>

Keys == {"a", "b"}
Vals == {"1", "2"}

\* Request p is served by handler p.
Procs == 1 .. MaxSeqOps
\* Subscriber s is the s-th to connect.
Subs == 1 .. MaxIsoSubs

\* The absence of a key in the reference map.
NoVal == "none"

\* ---------------------------------------------------------------- strings

Quote == "\""

\* key+"="+value, the body replicateData posts.
KeyValueBody(key, value) == <<key, "=", value>>

\* A line with the value before the key.
FormatEntrySwapped(key, value) == <<value, "=", key, "\n">>

\* fmt.Sprintf("%s=%s\n", key, value), one line of getDataFromCache.
FormatEntry(key, value) == <<key, "=", value, "\n">>

\* A JSON string of one plain character.
JSONString(c) == <<Quote, c, Quote>>

\* One member "k":"v" of a JSON object.
JSONMember(k, v) == JSONString(k) \o <<":">> \o JSONString(v)

\* A JSON object of the members ms, in this order.
RECURSIVE JSONObjectTail(_)
JSONObjectTail(ms) ==
    IF Len(ms) = 0 THEN <<"}">>
    ELSE <<",">> \o JSONMember(ms[1][1], ms[1][2]) \o JSONObjectTail(Tail(ms))

JSONObject(ms) ==
    IF Len(ms) = 0 THEN <<"{", "}">>
    ELSE <<"{">> \o JSONMember(ms[1][1], ms[1][2]) \o JSONObjectTail(Tail(ms))

IsPlain(c) == c \in Keys \cup Vals

\* Whether s starts with a member "k":"v".
StartsWithMember(s) ==
    /\ Len(s) >= 7
    /\ s[1] = Quote /\ IsPlain(s[2]) /\ s[3] = Quote
    /\ s[4] = ":"
    /\ s[5] = Quote /\ IsPlain(s[6]) /\ s[7] = Quote

DecodeError == [ok |-> FALSE, data |-> <<>>]

\* The members of an object, decoded left to right into a map; a key met
\* again takes the later value, as encoding/json does.
RECURSIVE DecodeMembers(_, _)
DecodeMembers(s, acc) ==
    IF ~StartsWithMember(s) THEN DecodeError
    ELSE LET data == (s[2] :> s[6]) @@ acc
         IN  IF Len(s) = 7 THEN [ok |-> TRUE, data |-> data]
             ELSE IF s[8] = "," THEN DecodeMembers(SubSeq(s, 9, Len(s)), data)
             ELSE DecodeError

\* json.NewDecoder(r.Body).Decode(&data) with data a map[string]string: the
\* body must be a JSON object of string members; anything else is an error.
JSONDecode(body) ==
    IF Len(body) < 2 \/ body[1] # "{" \/ body[Len(body)] # "}" THEN DecodeError
    ELSE IF Len(body) = 2 THEN [ok |-> TRUE, data |-> <<>>]
    ELSE DecodeMembers(SubSeq(body, 2, Len(body) - 1), <<>>)

\* --------------------------------------------------------------- sync.Map

\* c.data holds entries <<key, value>>.
HasKey(m, key) == \E e \in m : e[1] = key

\* A Store that adds the entry and leaves the old one of the key.
MapStoreKeepsOld(m, key, value) == m \cup {<<key, value>>}

\* c.data.Store(key, value): the entry of key is replaced or added.
MapStore(m, key, value) == {e \in m : e[1] # key} \cup {<<key, value>>}

\* c.data.Load(key).
MapLoad(m, key) ==
    IF HasKey(m, key)
    THEN [val |-> (CHOOSE e \in m : e[1] = key)[2], ok |-> TRUE]
    ELSE [val |-> "", ok |-> FALSE]

\* A Delete that empties the map.
MapDeleteAll(m, key) == {}

\* A Delete that stores an empty value for the key.
MapDeleteTombstone(m, key) == {e \in m : e[1] # key} \cup {<<key, "">>}

\* c.data.Delete(key).
MapDelete(m, key) == {e \in m : e[1] # key}

\* A Get that does not look at ok.
GetNoMissCheck(m, key) == <<MapLoad(m, key).val, TRUE>>

\* Cache.Get: <<value, found>>.
Get(m, key) ==
    LET r == MapLoad(m, key)
    IN  IF ~r.ok THEN <<"", FALSE>> ELSE <<r.val, TRUE>>

\* ------------------------------------------------------------------ routes

\* The patterns main() registers with http.HandleFunc; a pattern that does not
\* end in "/" matches that path alone.
Patterns == {<<"add">>, <<"get">>, <<"delete">>, <<"replicate">>,
             <<"getCacheContent">>, <<"updates">>}

\* The handler of a request path (a sequence of segments), or "notfound".
Route(path) == IF path \in Patterns THEN path[1] ELSE "notfound"

\* ------------------------------------------------------------------- state

VARIABLES
    store,      \* store[n]: c.data of node n, a set of entries
    mu,         \* mu[n]: whether c.mu of node n is locked
    h,          \* h[p]: the handler of request p
    dl,         \* the bag of the delivery goroutines that have not ended
    nops,       \* the requests served so far
    load,       \* how many requests clients send, whether one after the other,
                \* whether after all that the ones before left is gone, and
                \* how many subscribers connect
    sub,        \* sub[s]: the /updates connection of subscriber s
    lastWrite,  \* lastWrite[n][k]: the request that last wrote k in c.data of n, or 0
    ref,        \* ref[n]: the mutations of c.data applied to a plain map
    walk        \* walk[p]: the contents c.data has had since the walk of
                \* getDataFromCache that handler p is in began

vars == <<store, mu, h, dl, nops, load, sub, lastWrite, ref, walk>>

\* A handler that serves a client has no delivery to answer.
NoVia == <<>>

Idle == [pc |-> "idle", node |-> ":8080", handler |-> "none",
         key |-> "", value |-> "", todo |-> <<>>, seen |-> {}, buf |-> <<>>,
         via |-> NoVia, status |-> 0, body |-> <<>>]

NoSub == [node |-> ":8080", hpc |-> "none", gpc |-> "none", ctxDone |-> FALSE,
          seen |-> {}, buf |-> <<>>, frame |-> <<>>]

\* The plain map with the entries of m.
AsMap(m) == [k \in Keys |-> IF HasKey(m, k) THEN MapLoad(m, k).val ELSE NoVal]

\* The nodes clients send requests to: the address the handlers of main() name
\* as their own server.
ClientNodes == {":8080"}

\* What the cache of the node clients talk to holds at the start: nothing, as
\* main() builds it, or what earlier requests have left in it.
InitStores == {{}, {<<"a", "1">>, <<"b", "1">>}}

\* The state at the start under the load l; the caches of the nodes no client
\* talks to start empty.
InitWith(l) ==
    /\ load = l
    /\ store \in {f \in [Nodes -> InitStores] : \A n \in Nodes \ ClientNodes : f[n] = {}}
    /\ mu = [n \in Nodes |-> FALSE]
    /\ h = [p \in Procs |-> Idle]
    /\ dl = EmptyBag
    /\ nops = 0
    /\ sub = [s \in Subs |-> NoSub]
    /\ lastWrite = [n \in Nodes |-> [k \in Keys |-> 0]]
    /\ ref = [n \in Nodes |-> AsMap(store[n])]
    /\ walk = [p \in Procs |-> {}]

\* The next request is request p, and clients send it: always when requests
\* overlap; when they are served one after the other, once the handlers before
\* it have answered; and when nothing of the requests before is to be left,
\* once their responses have been read and the deliveries they launched have
\* ended.
Free(p) ==
    /\ p = nops + 1
    /\ nops < load.limit
    /\ load.seq => \A q \in Procs : h[q].pc \in {"idle", "done"}
    /\ load.drain => (dl = EmptyBag /\ \A q \in Procs : h[q].pc = "idle")

\* A handler that starts serving a request on node n.
Begin(n, handler) == [Idle EXCEPT !.node = n, !.handler = handler]

\* The handler has written its response.
Respond(r, status, body) == [r EXCEPT !.pc = "done", !.status = status, !.body = body]

\* The bag dl with one delivery d replaced by e.
Moved(d, e) == (dl (-) SetToBag({d})) (+) SetToBag({e})

\* The peer's handler answers the delivery `via`, if any: http.Post or
\* http.DefaultClient.Do returns the response to the goroutine, which drops
\* it, logs the success and ends.
Answered(via) == IF via = NoVia THEN dl ELSE dl (-) SetToBag({via})

\* ------------------------------------------------------------- replication

\* The goroutine replicateData starts for a peer: it posts key+"="+value to
\* the peer's /replicate.
PostDelivery(n, peerAddr, key, value) ==
    [from |-> n, to |-> peerAddr, method |-> "POST", path |-> <<"replicate">>,
     body |-> KeyValueBody(key, value), key |-> key, value |-> value,
     st |-> "sent"]

\* The goroutine replicateDelete starts for a peer: it sends DELETE with no
\* body to the peer's /replicate/<key>.
DeleteDelivery(n, peerAddr, key) ==
    [from |-> n, to |-> peerAddr, method |-> "DELETE", path |-> <<"replicate", key>>,
     body |-> <<>>, key |-> key, value |-> "",
     st |-> "sent"]

\* A replicateData that stops after the first peer.
replicateDataFirstPeer(n, key, value) ==
    dl (+) SetToBag({PostDelivery(n, peers[1], key, value)})

\* replicateData: one goroutine per peer of c.peers.
replicateData(n, key, value) ==
    dl (+) SetToBag({PostDelivery(n, peers[i], key, value) : i \in 1 .. Len(peers)})

\* replicateDelete: one goroutine per peer of c.peers.
replicateDelete(n, key) ==
    dl (+) SetToBag({DeleteDelivery(n, peers[i], key) : i \in 1 .. Len(peers)})

\* c.data of node n becomes m: the walks in progress on n have one more
\* content they overlap.
Observed(n, m) ==
    [q \in Procs |-> IF h[q].pc = "Range" /\ h[q].node = n
                     THEN walk[q] \cup {m}
                     ELSE walk[q]]

\* --------------------------------------------------------------- Cache.Add

\* An Add that goes from the lock to replicateData and stores nothing.
AddLockSkipsStore(p) ==
    /\ h[p].pc = "AddLock"
    /\ ~mu[h[p].node]
    /\ mu' = [mu EXCEPT ![h[p].node] = TRUE]
    /\ h' = [h EXCEPT ![p].pc = "AddReplicate"]
    /\ UNCHANGED <<store, dl, nops, load, sub, lastWrite, ref, walk>>

\* An Add that does not wait for the lock.
AddLockNoWait(p) ==
    /\ h[p].pc = "AddLock"
    /\ mu' = [mu EXCEPT ![h[p].node] = TRUE]
    /\ h' = [h EXCEPT ![p].pc = "AddStore"]
    /\ UNCHANGED <<store, dl, nops, load, sub, lastWrite, ref, walk>>

\* c.mu.Lock() of Add.
AddLock(p) ==
    /\ h[p].pc = "AddLock"
    /\ ~mu[h[p].node]
    /\ mu' = [mu EXCEPT ![h[p].node] = TRUE]
    /\ h' = [h EXCEPT ![p].pc = "AddStore"]
    /\ UNCHANGED <<store, dl, nops, load, sub, lastWrite, ref, walk>>

\* c.data.Store(key, value).
AddStore(p) ==
    /\ h[p].pc = "AddStore"
    /\ store' = [store EXCEPT ![h[p].node] = MapStore(@, h[p].key, h[p].value)]
    /\ lastWrite' = [lastWrite EXCEPT ![h[p].node][h[p].key] = p]
    /\ ref' = [ref EXCEPT ![h[p].node][h[p].key] = h[p].value]
    /\ walk' = Observed(h[p].node, MapStore(store[h[p].node], h[p].key, h[p].value))
    /\ h' = [h EXCEPT ![p].pc = "AddReplicate"]
    /\ UNCHANGED <<mu, dl, nops, load, sub>>

\* c.replicateData(server, key, value).
AddReplicate(p) ==
    /\ h[p].pc = "AddReplicate"
    /\ dl' = replicateData(h[p].node, h[p].key, h[p].value)
    /\ h' = [h EXCEPT ![p].pc = "AddUnlock"]
    /\ UNCHANGED <<store, mu, nops, load, sub, lastWrite, ref, walk>>

\* The /replicate handler's loop over the decoded map, which Go walks in no
\* fixed order: the handler calls Add on the pair of key k next.
NextPair(r, k) ==
    [r EXCEPT !.pc = "AddLock", !.key = k, !.value = r.todo[k],
              !.todo = [x \in (DOMAIN r.todo) \ {k} |-> r.todo[x]]]

\* An Add that returns once the deliveries its node has launched have ended.
AddUnlockWaits(p) ==
    /\ h[p].pc = "AddUnlock"
    /\ \A d \in BagToSet(dl) : d.from # h[p].node
    /\ mu' = [mu EXCEPT ![h[p].node] = FALSE]
    /\ IF h[p].handler = "replicate" /\ DOMAIN h[p].todo # {}
       THEN /\ \E k \in DOMAIN h[p].todo : h' = [h EXCEPT ![p] = NextPair(@, k)]
            /\ dl' = dl
       ELSE /\ h' = [h EXCEPT ![p] = Respond(@, 200, <<>>)]
            /\ dl' = Answered(h[p].via)
    /\ UNCHANGED <<store, nops, load, sub, lastWrite, ref, walk>>

\* The deferred c.mu.Unlock() of Add and the return to the handler: /add
\* answers 200; /replicate goes on with the next pair and answers 200 after
\* the last.
AddUnlock(p) ==
    /\ h[p].pc = "AddUnlock"
    /\ mu' = [mu EXCEPT ![h[p].node] = FALSE]
    /\ IF h[p].handler = "replicate" /\ DOMAIN h[p].todo # {}
       THEN /\ \E k \in DOMAIN h[p].todo : h' = [h EXCEPT ![p] = NextPair(@, k)]
            /\ dl' = dl
       ELSE /\ h' = [h EXCEPT ![p] = Respond(@, 200, <<>>)]
            /\ dl' = Answered(h[p].via)
    /\ UNCHANGED <<store, nops, load, sub, lastWrite, ref, walk>>

\* ------------------------------------------------------------ Cache.Delete

\* c.mu.Lock() of Delete.
DelLock(p) ==
    /\ h[p].pc = "DelLock"
    /\ ~mu[h[p].node]
    /\ mu' = [mu EXCEPT ![h[p].node] = TRUE]
    /\ h' = [h EXCEPT ![p].pc = "DelStore"]
    /\ UNCHANGED <<store, dl, nops, load, sub, lastWrite, ref, walk>>

\* c.data.Delete(key).
DelStore(p) ==
    /\ h[p].pc = "DelStore"
    /\ store' = [store EXCEPT ![h[p].node] = MapDelete(@, h[p].key)]
    /\ lastWrite' = [lastWrite EXCEPT ![h[p].node][h[p].key] = p]
    /\ ref' = [ref EXCEPT ![h[p].node][h[p].key] = NoVal]
    /\ walk' = Observed(h[p].node, MapDelete(store[h[p].node], h[p].key))
    /\ h' = [h EXCEPT ![p].pc = "DelReplicate"]
    /\ UNCHANGED <<mu, dl, nops, load, sub>>

\* c.replicateDelete(server, key).
DelReplicate(p) ==
    /\ h[p].pc = "DelReplicate"
    /\ dl' = replicateDelete(h[p].node, h[p].key)
    /\ h' = [h EXCEPT ![p].pc = "DelUnlock"]
    /\ UNCHANGED <<store, mu, nops, load, sub, lastWrite, ref, walk>>

\* The deferred c.mu.Unlock() of Delete and the return to /delete, which
\* answers 200.
DelUnlock(p) ==
    /\ h[p].pc = "DelUnlock"
    /\ mu' = [mu EXCEPT ![h[p].node] = FALSE]
    /\ h' = [h EXCEPT ![p] = Respond(@, 200, <<>>)]
    /\ UNCHANGED <<store, dl, nops, load, sub, lastWrite, ref, walk>>

\* ------------------------------------------------------- getDataFromCache

\* A visit that writes a line for a key whether c.data holds it or not.
RangeVisitNoCheck(r, m, k) ==
    [r EXCEPT !.seen = @ \cup {k},
              !.buf = @ \o FormatEntry(k, MapLoad(m, k).val)]

\* One call of the function c.data.Range is given: the entry of a key not yet
\* visited, as it is now, is written to the buffer; of a key that is absent
\* nothing is written.  Range visits the keys in no fixed order, each once.
RangeVisit(r, m, k) ==
    [r EXCEPT !.seen = @ \cup {k},
              !.buf = IF HasKey(m, k)
                      THEN @ \o FormatEntry(k, MapLoad(m, k).val)
                      ELSE @]

\* ---------------------------------------------------------------- handlers

\* A handler of /add that requires the key only.
ServeAddKeyOnly(p, n, key, value) ==
    /\ Free(p)
    /\ nops' = nops + 1
    /\ h' = [h EXCEPT ![p] =
                IF key = ""
                THEN Respond(Begin(n, "add"), 400, <<>>)
                ELSE [Begin(n, "add") EXCEPT
                         !.pc = "AddLock", !.key = key, !.value = value]]
    /\ UNCHANGED <<store, mu, dl, load, sub, lastWrite, ref, walk>>

\* The handler of /add: 400 when key or value is empty, else cache.Add.
ServeAdd(p, n, key, value) ==
    /\ Free(p)
    /\ nops' = nops + 1
    /\ h' = [h EXCEPT ![p] =
                IF key = "" \/ value = ""
                THEN Respond(Begin(n, "add"), 400, <<>>)
                ELSE [Begin(n, "add") EXCEPT
                         !.pc = "AddLock", !.key = key, !.value = value]]
    /\ UNCHANGED <<store, mu, dl, load, sub, lastWrite, ref, walk>>

\* json.NewEncoder(w).Encode(map[string]string{key: val}).
EncodeResult(key, val) == <<"{">> \o JSONMember(key, val) \o <<"}", "\n">>

\* The handler of /get: 400 when key is empty, 404 when cache.Get misses, else
\* 200 with the pair as JSON.
getHandler(n, key) ==
    LET r == [Begin(n, "get") EXCEPT !.key = key]
        got == Get(store[n], key)
    IN  IF key = "" THEN Respond(r, 400, <<>>)
        ELSE IF ~got[2] THEN Respond(r, 404, <<>>)
        ELSE Respond([r EXCEPT !.value = got[1]], 200, EncodeResult(key, got[1]))

\* /get requested.
ServeGet(p, n, key) ==
    /\ Free(p)
    /\ nops' = nops + 1
    /\ h' = [h EXCEPT ![p] = getHandler(n, key)]
    /\ UNCHANGED <<store, mu, dl, load, sub, lastWrite, ref, walk>>

\* The handler of /delete: 400 when key is empty, else cache.Delete.
ServeDelete(p, n, key) ==
    /\ Free(p)
    /\ nops' = nops + 1
    /\ h' = [h EXCEPT ![p] =
                IF key = ""
                THEN Respond(Begin(n, "delete"), 400, <<>>)
                ELSE [Begin(n, "delete") EXCEPT !.pc = "DelLock", !.key = key]]
    /\ UNCHANGED <<store, mu, dl, load, sub, lastWrite, ref, walk>>

\* The handler of /replicate on a request with `body`, serving the delivery
\* `via` or a client: 400 when the body does not decode; else cache.Add for
\* every pair of the decoded map, then 200.  The handler reads neither the
\* method nor the rest of the request.
replicateHandler(n, body, via) ==
    LET dec == JSONDecode(body)
        r == [Begin(n, "replicate") EXCEPT !.via = via]
    IN  IF ~dec.ok THEN {Respond(r, 400, <<>>)}
        ELSE IF DOMAIN dec.data = {} THEN {Respond(r, 200, <<>>)}
        ELSE {NextPair([r EXCEPT !.todo = dec.data], k) : k \in DOMAIN dec.data}

\* The bodies clients post to /replicate: JSON objects, and an empty body, a
\* key=value body and a truncated object, which do not decode.
ClientBodies ==
    {JSONObject(<<>>), JSONObject(<<<<"a", "1">>>>), JSONObject(<<<<"b", "2">>>>),
     KeyValueBody("a", "1"), <<>>, <<"{">> \o JSONMember("a", "1")}

\* /replicate requested by a client.
ServeReplicate(p, n, body) ==
    /\ Free(p)
    /\ nops' = nops + 1
    /\ \E r \in replicateHandler(n, body, NoVia) : h' = [h EXCEPT ![p] = r]
    /\ UNCHANGED <<store, mu, dl, load, sub, lastWrite, ref, walk>>

\* The handler of /getCacheContent starts cache.getDataFromCache.
ServeGetCacheContent(p, n) ==
    /\ Free(p)
    /\ nops' = nops + 1
    /\ h' = [h EXCEPT ![p] = [Begin(n, "getCacheContent") EXCEPT !.pc = "Range"]]
    /\ walk' = [walk EXCEPT ![p] = {store[n]}]
    /\ UNCHANGED <<store, mu, dl, load, sub, lastWrite, ref>>

\* c.data.Range visits one more key; after the last, getDataFromCache returns
\* buf.String() and the handler writes it with status 200.
RangeStep(p) ==
    /\ h[p].pc = "Range"
    /\ \E k \in Keys \ h[p].seen :
          LET r == RangeVisit(h[p], store[h[p].node], k)
          IN  /\ h' = [h EXCEPT ![p] = IF r.seen = Keys THEN Respond(r, 200, r.buf) ELSE r]
              /\ walk' = [walk EXCEPT ![p] = IF r.seen = Keys THEN {} ELSE @]
    /\ UNCHANGED <<store, mu, dl, nops, load, sub, lastWrite, ref>>

\* -------------------------------------------------------------- deliveries

\* What the server of the peer does with the request of a delivery: 404 when
\* no pattern matches the path, else the /replicate handler.
peerHandler(d) ==
    IF Route(d.path) = "replicate"
    THEN replicateHandler(d.to, d.body, [d EXCEPT !.st = "serving"])
    ELSE {Respond(Begin(d.to, "notfound"), 404, <<>>)}

\* A delivery reaches its peer.  A handler that answers at once (400, 404, or
\* 200 for an empty object) is over within the step, and so is the goroutine,
\* which drops the response and logs the success; a handler that calls cache.Add
\* is the next request served and answers after its last Add.
ServeDelivery(d) ==
    /\ BagIn(d, dl) /\ d.st = "sent"
    /\ \E r \in peerHandler(d) :
          IF r.pc = "done"
          THEN /\ dl' = dl (-) SetToBag({d})
               /\ UNCHANGED <<h, nops>>
          ELSE \E p \in Procs :
                 /\ Free(p)
                 /\ h' = [h EXCEPT ![p] = r]
                 /\ nops' = nops + 1
                 /\ dl' = Moved(d, [d EXCEPT !.st = "serving"])
    /\ UNCHANGED <<store, mu, load, sub, lastWrite, ref, walk>>

\* A delivery fails (the peer is down or unreachable): http.Post or
\* http.DefaultClient.Do returns an error, which the goroutine logs before it
\* ends.
DeliveryFail(d) ==
    /\ BagIn(d, dl) /\ d.st = "sent"
    /\ dl' = dl (-) SetToBag({d})
    /\ UNCHANGED <<store, mu, h, nops, load, sub, lastWrite, ref, walk>>

\* ----------------------------------------------------------------- /updates

\* A frame without the update.
FrameNoData(update) == <<"data: ", "\n", "\n">>

\* fmt.Fprintf(w, "data: %s\n\n", update).
Frame(update) == <<"data: ">> \o update \o <<"\n", "\n">>

\* The handler of /updates starts for subscriber s: it makes the channel,
\* starts the goroutine that lists the cache, and enters its loop.
Subscribe(s, n) ==
    /\ sub[s].hpc = "none"
    /\ s <= load.subs
    /\ \A t \in Subs : t < s => sub[t].hpc # "none"
    /\ sub' = [sub EXCEPT ![s] = [NoSub EXCEPT !.node = n, !.hpc = "select", !.gpc = "Range"]]
    /\ UNCHANGED <<store, mu, h, dl, nops, load, lastWrite, ref, walk>>

\* The goroutine is in cache.getDataFromCache: c.data.Range visits one more
\* key; after the last the goroutine goes on to send the listing.
ProducerRange(s) ==
    /\ sub[s].gpc = "Range"
    /\ \E k \in Keys \ sub[s].seen :
          LET r == RangeVisit(sub[s], store[sub[s].node], k)
          IN  sub' = [sub EXCEPT ![s] = IF r.seen = Keys THEN [r EXCEPT !.gpc = "send"] ELSE r]
    /\ UNCHANGED <<store, mu, h, dl, nops, load, lastWrite, ref, walk>>

\* A send that waits until every handler in its loop has a listing to receive.
DeliverAllReady(s) ==
    /\ sub[s].gpc = "send"
    /\ sub[s].hpc = "select"
    /\ \A t \in Subs : sub[t].hpc = "select" => sub[t].gpc = "send"
    /\ sub' = [sub EXCEPT ![s].frame = Frame(sub[s].buf), ![s].gpc = "sleep",
                          ![s].buf = <<>>, ![s].seen = {}]
    /\ UNCHANGED <<store, mu, h, dl, nops, load, lastWrite, ref, walk>>

\* updates <- data meets case update := <-updates: the channel has no buffer,
\* so the goroutine sends when the handler receives; the handler writes the
\* frame and the goroutine goes to sleep.
Deliver(s) ==
    /\ sub[s].gpc = "send"
    /\ sub[s].hpc = "select"
    /\ sub' = [sub EXCEPT ![s].frame = Frame(sub[s].buf), ![s].gpc = "sleep",
                          ![s].buf = <<>>, ![s].seen = {}]
    /\ UNCHANGED <<store, mu, h, dl, nops, load, lastWrite, ref, walk>>

\* time.Sleep(1 * time.Second) is over: the goroutine lists the cache again.
ProducerWake(s) ==
    /\ sub[s].gpc = "sleep"
    /\ sub' = [sub EXCEPT ![s].gpc = "Range"]
    /\ UNCHANGED <<store, mu, h, dl, nops, load, lastWrite, ref, walk>>

\* The subscriber disconnects, or the server shuts down: r.Context() is
\* cancelled.
Cancel(s) ==
    /\ sub[s].hpc = "select"
    /\ ~sub[s].ctxDone
    /\ sub' = [sub EXCEPT ![s].ctxDone = TRUE]
    /\ UNCHANGED <<store, mu, h, dl, nops, load, lastWrite, ref, walk>>

\* case <-r.Context().Done(): the handler returns.
HandlerReturn(s) ==
    /\ sub[s].hpc = "select"
    /\ sub[s].ctxDone
    /\ sub' = [sub EXCEPT ![s].hpc = "returned"]
    /\ UNCHANGED <<store, mu, h, dl, nops, load, lastWrite, ref, walk>>

\* ------------------------------------------------------------ specification

\* The responses have been read: the handlers that have answered are gone.
Forget ==
    /\ load.drain
    /\ \E p \in Procs : h[p].pc = "done"
    /\ \A p \in Procs : h[p].pc \in {"idle", "done"}
    /\ h' = [p \in Procs |-> Idle]
    /\ UNCHANGED <<store, mu, dl, nops, load, sub, lastWrite, ref, walk>>

\* A client's request to change the cache arrives.
Mutate ==
    \/ \E p \in Procs, n \in ClientNodes, k \in Keys \cup {""}, v \in Vals \cup {""} :
          ServeAdd(p, n, k, v)
    \/ \E p \in Procs, n \in ClientNodes, k \in Keys \cup {""} : ServeDelete(p, n, k)

\* A client's request arrives.
Arrive ==
    \/ Mutate
    \/ \E p \in Procs, n \in ClientNodes, k \in Keys \cup {""} : ServeGet(p, n, k)
    \/ \E p \in Procs, n \in ClientNodes, b \in ClientBodies : ServeReplicate(p, n, b)
    \/ \E p \in Procs, n \in ClientNodes : ServeGetCacheContent(p, n)

\* The listing of /getCacheContent goes on.
Scan == \E p \in Procs : RangeStep(p)

\* A call of Add or Delete takes a step.
Calls ==
    \E p \in Procs :
        \/ AddLock(p) \/ AddStore(p) \/ AddReplicate(p) \/ AddUnlock(p)
        \/ DelLock(p) \/ DelStore(p) \/ DelReplicate(p) \/ DelUnlock(p)

\* A call of Add or Delete, or a delivery, takes a step.
Step ==
    \/ \E p \in Procs : AddLock(p)
    \/ \E p \in Procs : AddStore(p)
    \/ \E p \in Procs : AddReplicate(p)
    \/ \E p \in Procs : AddUnlock(p)
    \/ \E p \in Procs : DelLock(p)
    \/ \E p \in Procs : DelStore(p)
    \/ \E p \in Procs : DelReplicate(p)
    \/ \E p \in Procs : DelUnlock(p)
    \/ \E d \in BagToSet(dl) : ServeDelivery(d)
    \/ \E d \in BagToSet(dl) : DeliveryFail(d)

\* A subscriber's connection takes a step.
Feed ==
    \/ \E s \in Subs, n \in ClientNodes : Subscribe(s, n)
    \/ \E s \in Subs : ProducerRange(s)
    \/ \E s \in Subs : Deliver(s)
    \/ \E s \in Subs : ProducerWake(s)
    \/ \E s \in Subs : Cancel(s)
    \/ \E s \in Subs : HandlerReturn(s)

\* /getCacheContent requested by a client.
Snapshot == \E p \in Procs, n \in ClientNodes : ServeGetCacheContent(p, n)

\* Requests that overlap, the deliveries they launch, and no subscriber.
Init == InitWith([limit |-> MaxOps, seq |-> FALSE, drain |-> FALSE, subs |-> 0])

Next == Arrive \/ Scan \/ Step

Spec == Init /\ [][Next]_vars

\* Listings of the cache that overlap with requests that change it.
WalkInit == InitWith([limit |-> MaxWalkOps, seq |-> FALSE, drain |-> FALSE, subs |-> 0])

WalkNext == Mutate \/ Snapshot \/ Scan \/ Step

WalkSpec == WalkInit /\ [][WalkNext]_vars

\* Requests served one after the other, on a cache that starts empty.
SeqInit ==
    /\ InitWith([limit |-> MaxSeqOps, seq |-> TRUE, drain |-> TRUE, subs |-> 0])
    /\ \A n \in Nodes : store[n] = {}

SeqNext == Arrive \/ Scan \/ Step \/ Forget

SeqSpec == SeqInit /\ [][SeqNext]_vars

\* Subscribers of /updates, with requests that change the cache.  The
\* goroutines and handlers that can take a step are scheduled in the end; no
\* client has to send a request or to disconnect, and no peer has to answer
\* a delivery or to refuse it.
FeedInit == InitWith([limit |-> MaxFeedOps, seq |-> FALSE, drain |-> FALSE, subs |-> MaxSubs])

FeedNext == Mutate \/ Step \/ Feed

FeedFairness ==
    /\ WF_vars(Calls)
    /\ \A s \in Subs :
          /\ WF_vars(ProducerRange(s))
          /\ WF_vars(Deliver(s))
          /\ WF_vars(ProducerWake(s))
          /\ WF_vars(HandlerReturn(s))

FeedSpec == FeedInit /\ [][FeedNext]_vars /\ FeedFairness

\* Subscribers connected side by side, with requests that change the cache.
IsoInit ==
    InitWith([limit |-> MaxIsoOps, seq |-> FALSE, drain |-> FALSE, subs |-> MaxIsoSubs])

IsoSpec == IsoInit /\ [][FeedNext]_vars

\* Requests served one after the other, on a cache that starts empty, while
\* the deliveries of the requests before are still on their way.
OrderInit ==
    /\ InitWith([limit |-> MaxOrderOps, seq |-> TRUE, drain |-> FALSE, subs |-> 0])
    /\ \A n \in Nodes : store[n] = {}

OrderSpec == OrderInit /\ [][Next]_vars

\* -------------------------------------------------------------- properties

\* The entries c.data of node n holds for key k.
EntriesOf(n, k) == {e \in store[n] : e[1] = k}

\* Handler p has answered 200 after calling cache.Add(key, value).
AddReturned(p) ==
    /\ h[p].pc = "done" /\ h[p].status = 200
    /\ h[p].handler \in {"add", "replicate"} /\ h[p].key # ""

\* Handler p has answered 200 after calling cache.Delete(key).
DeleteReturned(p) == h[p].pc = "done" /\ h[p].status = 200 /\ h[p].handler = "delete"

\* No request has written the key of handler p after p did.
LastWriter(p) == lastWrite[h[p].node][h[p].key] = p

\* C1: once Add(k, v) has returned and no other request has written k since,
\* Get(k) gives (v, true) and c.data holds one entry for k; so after Add(k, v1)
\* and then Add(k, v2), Get(k) gives (v2, true).
C1_AddThenGet ==
    \A p \in Procs :
        (AddReturned(p) /\ LastWriter(p))
            => /\ Get(store[h[p].node], h[p].key) = <<h[p].value, TRUE>>
               /\ Cardinality(EntriesOf(h[p].node, h[p].key)) = 1

\* Add(k, v1) and then Add(k, v2), with another value, have returned, and k
\* holds v2.
C1_Witness ==
    \E p, q \in Procs :
        /\ p < q /\ AddReturned(p) /\ AddReturned(q)
        /\ h[p].handler = "add" /\ h[q].handler = "add"
        /\ h[p].node = h[q].node /\ h[p].key = h[q].key /\ h[p].value # h[q].value
        /\ LastWriter(q)
        /\ store[h[q].node] = {<<"a", h[q].value>>, <<"b", "1">>}

\* Handler p takes a step of its call of cache.Delete.
DeleteStep(p) ==
    /\ h[p].pc \in {"DelLock", "DelStore", "DelReplicate", "DelUnlock"}
    /\ h'[p] # h[p]

\* C2: once Delete(k) has returned and no other request has written k since,
\* Get(k) gives ("", false); and no step of a Delete changes the entry of
\* another key, on any node.
C2_DeleteThenGet ==
    /\ [](\A p \in Procs :
            (DeleteReturned(p) /\ LastWriter(p))
                => Get(store[h[p].node], h[p].key) = <<"", FALSE>>)
    /\ [][\A p \in Procs :
            DeleteStep(p) =>
                \A n \in Nodes, k \in Keys :
                    (n # h[p].node \/ k # h[p].key)
                        => {e \in store'[n] : e[1] = k} = EntriesOf(n, k)]_vars

\* Delete("a") has returned on a cache that held a and b: b is left.
C2_Witness ==
    /\ nops = 1
    /\ DeleteReturned(1) /\ h[1].key = "a" /\ LastWriter(1)
    /\ store[h[1].node] = {<<"b", "1">>}

\* C3: the step of Delete(k) that writes c.data leaves it without k, as it was
\* when k was absent, and such that another Delete(k) would not change it; and
\* a Delete that has started answers 200.
C3_DeleteIdempotent ==
    /\ [][\A p \in Procs :
            (h[p].pc = "DelStore" /\ h'[p].pc # "DelStore") =>
                /\ EntriesOf(h[p].node, h[p].key) = {} => store' = store
                /\ {e \in store'[h[p].node] : e[1] = h[p].key} = {}
                /\ MapDelete(store'[h[p].node], h[p].key) = store'[h[p].node]]_vars
    /\ [](\A p \in Procs :
            (h[p].handler = "delete" /\ h[p].pc = "done" /\ h[p].key # "")
                => h[p].status = 200)

\* Delete("a") and a second Delete("a") have returned: the cache is as the
\* first left it.
C3_Witness ==
    /\ nops = 2
    /\ DeleteReturned(1) /\ DeleteReturned(2)
    /\ h[1].key = "a" /\ h[2].key = "a" /\ h[1].node = h[2].node
    /\ lastWrite[h[2].node]["a"] = 2
    /\ store[h[2].node] = {<<"b", "1">>}

\* The handler of /get answers request p in this step.
GetStep(p) == nops = p - 1 /\ nops' = p /\ h'[p].handler = "get" /\ h'[p].key # ""

\* C4: /get for key k answers 200 with value v exactly when c.data holds
\* <<k, v>>, and 404 with "" when it holds no entry for k; the step changes
\* neither a cache nor a lock and launches no delivery.
C4_Get ==
    [][\A p \in Procs :
        GetStep(p) =>
            LET n == h'[p].node
                k == h'[p].key
            IN  /\ h'[p].pc = "done"
                /\ \A v \in Vals :
                      <<k, v>> \in store[n] <=> (h'[p].status = 200 /\ h'[p].value = v)
                /\ EntriesOf(n, k) = {} <=> (h'[p].status = 404 /\ h'[p].value = "")
                /\ h'[p].status = 200 => h'[p].body = EncodeResult(k, h'[p].value)
                /\ store' = store /\ mu' = mu /\ dl' = dl]_vars

\* Add("a", "2") has returned and /get for a has answered 200 with 2.
C4_Witness ==
    /\ nops = 2
    /\ AddReturned(1) /\ h[1].key = "a" /\ h[1].value = "2"
    /\ h[2].handler = "get" /\ h[2].key = "a" /\ h[2].node = h[1].node
    /\ h[2].status = 200 /\ h[2].value = "2"

\* The pairs of a listing of key=value lines; <<"", "">> stands for what is
\* not such a line.
RECURSIVE ParseListing(_)
ParseListing(s) ==
    IF s = <<>> THEN {}
    ELSE IF Len(s) < 4 \/ s[2] # "=" \/ s[4] # "\n" THEN {<<"", "">>}
    ELSE {<<s[1], s[3]>>} \cup ParseListing(SubSeq(s, 5, Len(s)))

\* The listing has one line for each key in it.
OneLinePerKey(s) == Len(s) = 4 * Cardinality({e[1] : e \in ParseListing(s)})

\* The entries of the reference map of node n.
RefEntries(n) == {<<k, ref[n][k]>> : k \in {x \in Keys : ref[n][x] # NoVal}}

\* C5: when requests are served one after the other from empty caches, c.data
\* is the reference map to which the same Adds and Deletes were applied in the
\* same order, the listing /getCacheContent answers is that map, one line for
\* a key, and /get answers the value the map holds for the key, or 404.
C5_ReferenceMap ==
    /\ \A n \in Nodes : store[n] = RefEntries(n)
    /\ \A p \in Procs :
          (h[p].pc = "done" /\ h[p].handler = "getCacheContent")
              => /\ h[p].status = 200
                 /\ ParseListing(h[p].body) = RefEntries(h[p].node)
                 /\ OneLinePerKey(h[p].body)
    /\ \A p \in Procs :
          (h[p].pc = "done" /\ h[p].handler = "get" /\ h[p].key # "")
              => IF ref[h[p].node][h[p].key] = NoVal
                 THEN h[p].status = 404 /\ h[p].value = ""
                 ELSE h[p].status = 200 /\ h[p].value = ref[h[p].node][h[p].key]

\* From an empty cache, after a first request, Add("b", "2") and Delete("a")
\* were served, and the listing answered next is b=2.
C5_Witness ==
    /\ nops = 4
    /\ h[4].pc = "done" /\ h[4].handler = "getCacheContent"
    /\ h[4].body = <<"b", "=", "2", "\n">>
    /\ lastWrite[h[4].node]["b"] = 2 /\ lastWrite[h[4].node]["a"] = 3
    /\ ref[h[4].node]["a"] = NoVal /\ ref[h[4].node]["b"] = "2"

\* Handler p is in Add or Delete and holds the lock.
InCall(p) ==
    h[p].pc \in {"AddStore", "AddReplicate", "AddUnlock",
                 "DelStore", "DelReplicate", "DelUnlock"}

\* The next step of the call of Add or Delete handler p is in.
CallStep(p) ==
    \/ AddStore(p) \/ AddReplicate(p) \/ AddUnlock(p)
    \/ DelStore(p) \/ DelReplicate(p) \/ DelUnlock(p)

\* C6: whatever deliveries are outstanding, and whether or not a peer ever
\* answers them, a handler that holds the lock can take the next step of its
\* Add or Delete, up to the unlock and the return; a handler at the lock can
\* take it when it is free; the lock is held only by a handler inside Add or
\* Delete; and once Add(k, v) has returned, with no other write of k since,
\* Get(k) gives (v, true).
C6_ReplicationIsolation ==
    /\ \A p \in Procs : InCall(p) => ENABLED CallStep(p)
    /\ \A p \in Procs :
          (h[p].pc \in {"AddLock", "DelLock"} /\ ~mu[h[p].node])
              => ENABLED (AddLock(p) \/ DelLock(p))
    /\ \A n \in Nodes : mu[n] => \E p \in Procs : h[p].node = n /\ InCall(p)
    /\ \A p \in Procs :
          (AddReturned(p) /\ LastWriter(p))
              => <<h[p].key, h[p].value>> \in store[h[p].node]

\* Add(k, v) has returned and released the lock while its deliveries to both
\* peers are still unanswered, and Get(k) gives (v, true).
C6_Witness ==
    \E p \in Procs :
        /\ AddReturned(p) /\ h[p].handler = "add" /\ LastWriter(p)
        /\ ~mu[h[p].node]
        /\ \A i \in 1 .. Len(peers) :
              BagIn(PostDelivery(h[p].node, peers[i], h[p].key, h[p].value), dl)
        /\ Get(store[h[p].node], h[p].key) = <<h[p].value, TRUE>>

\* C7: no step of a /replicate handler, which applies what arrived on the
\* inbound replication path, launches a delivery to a peer.
C7_NoAmplification ==
    [][\A p \in Procs :
        (h[p].handler = "replicate" /\ h'[p] # h[p])
            => \A d \in BagToSet(dl') :
                  d.st = "sent" => CopiesIn(d, dl') <= CopiesIn(d, dl)]_vars

\* The pairs written to c.data of node n: those it started with and those of
\* the Adds that have stored.
Written(n) ==
    UNION InitStores \cup
    {<<h[q].key, h[q].value>> :
        q \in {x \in Procs : /\ h[x].node = n /\ h[x].key # ""
                             /\ h[x].handler \in {"add", "replicate"}
                             /\ h[x].pc \in {"AddReplicate", "AddUnlock", "done"}}}

\* C8: the listing getDataFromCache builds, at every point of the walk and
\* when it is answered, has whole key=value lines only, each a pair that was
\* written to c.data, and one line for a key; and the line a visit adds for a
\* key is the entry c.data holds for it at that step (that of an Add once it
\* has stored, the previous one before), or none when it holds none.
C8_SnapshotConsistency ==
    /\ [](\A p \in Procs :
            h[p].handler = "getCacheContent"
                => /\ ParseListing(h[p].buf) \subseteq Written(h[p].node)
                   /\ OneLinePerKey(h[p].buf)
                   /\ h[p].pc = "done" => h[p].body = h[p].buf)
    /\ [][\A p \in Procs :
            (h[p].pc = "Range" /\ h'[p] # h[p])
                => \E k \in Keys \ h[p].seen :
                      /\ h'[p].seen = h[p].seen \cup {k}
                      /\ ParseListing(h'[p].buf)
                            = ParseListing(h[p].buf) \cup EntriesOf(h[p].node, k)]_vars

\* A walk has listed a=1 and is not over, and Add("a", "2") has stored since
\* and is still in flight.
C8_Witness ==
    \E p, q \in Procs :
        /\ h[p].pc = "Range" /\ h[p].buf = <<"a", "=", "1", "\n">>
        /\ h[q].node = h[p].node /\ h[q].handler = "add"
        /\ h[q].key = "a" /\ h[q].value = "2" /\ h[q].pc = "AddReplicate"
        /\ <<"a", "2">> \in store[h[p].node]

\* C9: once the context of a subscriber is cancelled, the handler of /updates
\* returns and the goroutine that lists the cache for it ends.
C9_SubscriberTermination ==
    \A s \in Subs :
        sub[s].ctxDone ~> (sub[s].hpc = "returned" /\ sub[s].gpc = "exited")

\* C10: the peer's server accepts every delivery Add(k, v) has launched: its
\* /replicate handler decodes the body and calls cache.Add(k, v).
C10_UpsertPropagation ==
    \A d \in BagToSet(dl) :
        (d.method = "POST" /\ d.st = "sent")
            => \A r \in peerHandler(d) :
                  r.pc = "AddLock" /\ r.key = d.key /\ r.value = d.value

\* C11: the peer's server applies every delivery Delete(k) has launched: a
\* handler of the peer calls cache.Delete(k), which removes k from its c.data.
C11_DeletePropagation ==
    \A d \in BagToSet(dl) :
        (d.method = "DELETE" /\ d.st = "sent")
            => \A r \in peerHandler(d) :
                  r.node = d.to /\ r.pc = "DelLock" /\ r.key = d.key

\* The JSON objects of key to value pairs with at most one pair.
JSONObjects ==
    {JSONObject(<<>>)} \cup {JSONObject(<<<<k, v>>>>) : k \in Keys, v \in Vals}

\* Request p is answered in this step with `status`, and the step writes no
\* cache, takes no lock and launches no delivery.
Refused(p, status) ==
    /\ h'[p].pc = "done" /\ h'[p].status = status
    /\ store' = store /\ mu' = mu /\ dl' = dl

C13_ApplyThenBroadcast ==
    /\ [][\A p \in Procs :
            (h[p].pc = "AddReplicate" /\ h'[p] # h[p])
                => /\ <<h[p].key, h[p].value>> \in store[h[p].node]
                   /\ LastWriter(p)]_vars
    /\ [][\A p \in Procs :
            (h[p].pc = "DelReplicate" /\ h'[p] # h[p])
                => /\ EntriesOf(h[p].node, h[p].key) = {}
                   /\ LastWriter(p)]_vars
    /\ [][\A d \in BagToSet(dl') :
            (d.st = "sent" /\ CopiesIn(d, dl') > CopiesIn(d, dl))
                => \E p \in Procs :
                      /\ h'[p] # h[p]
                      /\ \/ h[p].pc = "AddReplicate" /\ d.method = "POST"
                         \/ h[p].pc = "DelReplicate" /\ d.method = "DELETE"
                      /\ h[p].node = d.from
                      /\ h[p].key = d.key /\ h[p].value = d.value]_vars

\* Add("a", "2") has returned and Delete("b") has launched its deliveries:
\* the cache holds a=2 and no b.
C13_Witness ==
    /\ nops = 2
    /\ AddReturned(1) /\ h[1].key = "a" /\ h[1].value = "2"
    /\ h[2].pc = "DelUnlock" /\ h[2].key = "b" /\ h[2].node = h[1].node
    /\ \A i \in 1 .. Len(peers) : BagIn(DeleteDelivery(h[2].node, peers[i], "b"), dl)
    /\ store[h[1].node] = {<<"a", "2">>}

\* The handlers that are in Add or Delete on node n and hold its lock.
Inside(n) == {p \in Procs : h[p].node = n /\ InCall(p)}

\* C14: at most one handler of a node is between Lock and Unlock of Add or
\* Delete, and the lock is held exactly then; the entry of a key is what the
\* last call that wrote it under the lock left; and while the lock is held
\* /get can be served and a walk of getDataFromCache can go on.
C14_WriteSerialization ==
    /\ \A n \in Nodes :
          /\ Cardinality(Inside(n)) <= 1
          /\ mu[n] <=> Inside(n) # {}
    /\ \A n \in Nodes, k \in Keys :
          LET p == lastWrite[n][k]
          IN  p # 0 =>
                IF h[p].handler = "delete"
                THEN EntriesOf(n, k) = {}
                ELSE EntriesOf(n, k) = {<<k, h[p].value>>}
    /\ \A p \in Procs : h[p].pc = "Range" => ENABLED RangeStep(p)
    /\ \A p \in Procs, n \in ClientNodes, k \in Keys :
          Free(p) => ENABLED ServeGet(p, n, k)

\* An Add of key a holds the lock and has stored, and another call that
\* writes a waits for the lock.
C14_Witness ==
    \E p, q \in Procs :
        /\ p # q /\ h[p].node = h[q].node
        /\ h[p].pc = "AddReplicate" /\ h[q].pc \in {"AddLock", "DelLock"}
        /\ h[p].key = "a" /\ h[q].key = "a"
        /\ mu[h[p].node]

\* C15: the listing getDataFromCache returns is the content c.data had at
\* one instant between the start of the walk and its end.
C15_SnapshotPointInTime ==
    [][\A p \in Procs :
        (h[p].pc = "Range" /\ h'[p].pc = "done")
            => /\ OneLinePerKey(h'[p].body)
               /\ ParseListing(h'[p].body) \in walk[p]]_vars

\* The deliveries the replicateData or replicateDelete step of handler p
\* is to launch.
Attempts(p) ==
    {IF h[p].pc = "AddReplicate"
     THEN PostDelivery(h[p].node, peers[i], h[p].key, h[p].value)
     ELSE DeleteDelivery(h[p].node, peers[i], h[p].key) : i \in 1 .. Len(peers)}

\* C16: the replicateData or replicateDelete step of a call launches one
\* delivery for each peer of c.peers and nothing else; when a delivery ends,
\* failed or answered, no cache and no lock changes, no handler that has
\* started changes, and no delivery is launched in its place; and a delivery
\* that has not ended can reach its peer or fail whatever the others do.
C16_OneAttemptPerPeer ==
    /\ [][\A p \in Procs :
            (h[p].pc \in {"AddReplicate", "DelReplicate"} /\ h'[p] # h[p])
                => /\ Cardinality(Attempts(p)) = Len(peers)
                   /\ \A i \in 1 .. Len(peers) : \E d \in Attempts(p) : d.to = peers[i]
                   /\ dl' = dl (+) SetToBag(Attempts(p))]_vars
    /\ [][\A d \in BagToSet(dl) :
            (d.st = "sent" /\ CopiesIn(d, dl') < CopiesIn(d, dl))
                => /\ store' = store /\ mu' = mu
                   /\ \A p \in Procs : h[p].pc # "idle" => h'[p] = h[p]
                   /\ \A e \in BagToSet(dl') :
                         e.st = "sent" => CopiesIn(e, dl') <= CopiesIn(e, dl)
                   /\ \A e \in BagToSet(dl) :
                         e # d => CopiesIn(e, dl') = CopiesIn(e, dl)]_vars
    /\ [](\A d \in BagToSet(dl) :
            d.st = "sent" => (ENABLED ServeDelivery(d)) /\ (ENABLED DeliveryFail(d)))

\* Add(k, v) has answered 200 and the cache holds <<k, v>>; its delivery to
\* the first peer has ended and the one to the second is still on its way.
C16_Witness ==
    \E p \in Procs :
        /\ AddReturned(p) /\ h[p].handler = "add"
        /\ <<h[p].key, h[p].value>> \in store[h[p].node]
        /\ ~BagIn(PostDelivery(h[p].node, peers[1], h[p].key, h[p].value), dl)
        /\ BagIn(PostDelivery(h[p].node, peers[2], h[p].key, h[p].value), dl)
        /\ BagCardinality(dl) = 1

\* The listing in the last frame written to subscriber s.
FrameData(s) == SubSeq(sub[s].frame, 2, Len(sub[s].frame) - 2)

\* Subscriber s has been written a frame.
HasFrame(s) ==
    /\ Len(sub[s].frame) >= 3
    /\ sub[s].frame[1] = "data: "
    /\ sub[s].frame[Len(sub[s].frame) - 1] = "\n"
    /\ sub[s].frame[Len(sub[s].frame)] = "\n"

\* The last frame written to subscriber s lists c.data as it is now.
FrameCurrent(s) ==
    HasFrame(s) /\ ParseListing(FrameData(s)) = store[sub[s].node]

\* C17: a frame is "data: ", a whole listing of getDataFromCache (whole
\* key=value lines of pairs that were written, one line for a key) and an
\* empty line; and a subscriber whose handler is in its loop is in the end
\* disconnected or written a frame that lists c.data as it then is: after the
\* last change of c.data, the content it left.
C17_FeedLiveness ==
    /\ [](\A s \in Subs :
            sub[s].frame # <<>>
                => /\ HasFrame(s)
                   /\ ParseListing(FrameData(s)) \subseteq Written(sub[s].node)
                   /\ OneLinePerKey(FrameData(s)))
    /\ \A s \in Subs :
          (sub[s].hpc = "select") ~> (sub[s].ctxDone \/ FrameCurrent(s))

\* Add("a", "2") has returned and a subscriber still connected has been
\* written the frame of a=2, b=1.
C17_Witness ==
    \E s \in Subs :
        /\ sub[s].hpc = "select" /\ ~sub[s].ctxDone
        /\ nops = 1 /\ AddReturned(1) /\ h[1].key = "a" /\ h[1].value = "2"
        /\ h[1].node = sub[s].node
        /\ FrameCurrent(s)
        /\ ParseListing(FrameData(s)) = {<<"a", "2">>, <<"b", "1">>}

\* C18: a step of the connection of a subscriber changes nothing of another
\* subscriber, of a cache, a lock, a handler or a delivery; and whatever the
\* other subscribers do or fail to do, the goroutine of a subscriber can go on
\* with its listing and wake from its sleep, its handler can receive the
\* listing the goroutine sends and return once the context is cancelled, a
\* handler inside Add or Delete can take its next step, a handler at a free
\* lock can take it, and /get can be served.
C18_SubscriberIsolation ==
    /\ [][\A s \in Subs :
            sub'[s] # sub[s]
                => /\ \A t \in Subs \ {s} : sub'[t] = sub[t]
                   /\ store' = store /\ mu' = mu /\ h' = h /\ dl' = dl]_vars
    /\ [](\A s \in Subs :
            /\ sub[s].gpc = "Range" => ENABLED ProducerRange(s)
            /\ sub[s].gpc = "sleep" => ENABLED ProducerWake(s)
            /\ (sub[s].gpc = "send" /\ sub[s].hpc = "select") => ENABLED Deliver(s)
            /\ (sub[s].hpc = "select" /\ sub[s].ctxDone) => ENABLED HandlerReturn(s))
    /\ [](\A p \in Procs :
            /\ InCall(p) => ENABLED CallStep(p)
            /\ (h[p].pc \in {"AddLock", "DelLock"} /\ ~mu[h[p].node])
                  => ENABLED (AddLock(p) \/ DelLock(p))
            /\ Free(p) => \A n \in ClientNodes, k \in Keys : ENABLED ServeGet(p, n, k))

\* The first subscriber has never been written a frame and its goroutine
\* waits to send; Add("a", "2") has returned since, and the second subscriber
\* has been written the frame of a=2, b=1.
C18_Witness ==
    /\ sub[1].hpc = "select" /\ sub[1].gpc = "send" /\ sub[1].frame = <<>>
    /\ ParseListing(sub[1].buf) = {<<"a", "1">>, <<"b", "1">>}
    /\ AddReturned(1) /\ h[1].key = "a" /\ h[1].value = "2"
    /\ sub[2].hpc = "select" /\ FrameCurrent(2)
    /\ ParseListing(FrameData(2)) = {<<"a", "2">>, <<"b", "1">>}

\* The deliveries the calls of Add and Delete launch.
Deliveries ==
    {PostDelivery(n, peers[i], k, v) :
        n \in ClientNodes, i \in 1 .. Len(peers), k \in Keys, v \in Vals}
    \cup {DeleteDelivery(n, peers[i], k) :
        n \in ClientNodes, i \in 1 .. Len(peers), k \in Keys}

\* C19: every delivery that has been launched ends, whether or not its peer
\* answers.
C19_BoundedDeliveries ==
    \A d \in Deliveries : BagIn(d, dl) ~> ~BagIn(d, dl)

====
